---- MODULE Spec2Model ----
(***************************************************************************)
(* Model of src/liquidity_provider.py: main(), the construction of the     *)
(* LiquidityProvider, and loop() calling rebalance() and sleeping.         *)
(*                                                                         *)
(* The two chain readers (current_active_bin, my_position_bin) are the     *)
(* program's inputs.  In the source they are stubs of a contract call      *)
(* ("Actual implementation would call the pair contract") that return the  *)
(* placeholder 0; here each call returns some bin of Bins (0 included) or  *)
(* raises, as a call to a node does.  The wallet balance is chain state    *)
(* the program never reads.                                                *)
(*                                                                         *)
(* Units: bins are bin ids, time is in seconds, balances are in tenths of  *)
(* an AVAX (10^17 wei), so that to_wei(0.2, "ether") is 2.                 *)
(***************************************************************************)
EXTENDS Integers, Sequences, FiniteSets, TLC

\* ------------------------------------------------------------------ bounds
MaxBin == 4
MaxStageSeconds == 100
MaxOverlap == 2

Bins == 0..MaxBin
StageSeconds == {0, MaxStageSeconds}

\* --------------------------------------------------------------- constants
\* time.sleep(180)
SleepSeconds == 180
\* abs(bin_id - active_bin) <= 2
RewardRange == 2
\* self.gas_reserve = self.w3.to_wei(0.2, "ether"), in tenths of an AVAX
gas_reserve == 2

VARIABLES
    pc,          \* position of the single thread of main()
    config,      \* the Config load_config() returned
    llm,         \* self.llm: "unset" before construction, "None" or "model"
    locals,      \* the frame of the running rebalance(): name -> value
    announced,   \* lines "Rebalancing from bin .. to around .." of this cycle
    errorLogged, \* whether loop() printed "Error during rebalance:" this cycle
    answers,     \* what the chain answered to this cycle's reads, in order
    earlier,     \* the frame of the previous call of rebalance()
    inProgress,  \* calls of rebalance() entered and not yet left
    everStarted, \* whether loop() has called rebalance() at least once
    sinceStart,  \* seconds since the current cycle's call of rebalance()
    period,      \* seconds from the last cycle's start to the end of its sleep
    balance      \* the wallet's balance on the chain

vars == <<pc, config, llm, locals, answers, announced, errorLogged, earlier,
          inProgress, everStarted, sinceStart, period, balance>>

EmptyFrame == [n \in {} |-> 0]

Bound(frame, name) == name \in DOMAIN frame

Abs(x) == IF x < 0 THEN -x ELSE x

Max(a, b) == IF a >= b THEN a ELSE b

\* ---------------------------------------------------------------- helpers

within_reward_range_strict(bin_id, active_bin) ==
    Abs(bin_id - active_bin) < RewardRange

within_reward_range(bin_id, active_bin) ==
    Abs(bin_id - active_bin) <= RewardRange

\* what rebalance() binds to `active`, given what the pair contract answers
current_active_bin(pairAnswer) == pairAnswer

my_position_bin_cached(lpAnswer) ==
    IF Bound(earlier, "current") THEN earlier["current"] ELSE lpAnswer

\* what rebalance() binds to `current`, given what the LP position is
my_position_bin(lpAnswer) == lpAnswer

rebalancing_line_from_current(current, active) ==
    [from |-> current, to |-> current]

\* print("Rebalancing from bin", current, "to around", active)
rebalancing_line(current, active) == [from |-> current, to |-> active]

\* _load_llama(): None when the library is missing or the model fails to load
load_llama(libraryPresent, modelLoads) ==
    IF ~libraryPresent THEN "None"
    ELSE IF ~modelLoads THEN "None"
    ELSE "model"

\* ------------------------------------------------------------------- Init

Init ==
    /\ pc = "load_config"
    /\ config = [wallet_ok |-> FALSE]
    /\ llm = "unset"
    /\ locals = EmptyFrame
    /\ answers = <<>>
    /\ announced = <<>>
    /\ errorLogged = FALSE
    /\ earlier = EmptyFrame
    /\ inProgress = 0
    /\ everStarted = FALSE
    /\ sinceStart = 0
    /\ period = 0
    /\ balance \in (gas_reserve - 1)..(gas_reserve + 1)

\* ---------------------------------------------------------------- startup

\* load_config(): reads the environment, never raises; WALLET_ADDRESS may or
\* may not be an address (its default "" is not)
LoadConfig ==
    /\ pc = "load_config"
    /\ \E ok \in BOOLEAN : config' = [wallet_ok |-> ok]
    /\ pc' = "construct"
    /\ UNCHANGED <<answers, llm, locals, announced, errorLogged, earlier, inProgress,
                   everStarted, sinceStart, period, balance>>

\* LiquidityProvider.__init__ raising in to_checksum_address(wallet_address):
\* the exception leaves main()
ConstructFails ==
    /\ pc = "construct"
    /\ ~config.wallet_ok
    /\ pc' = "crashed"
    /\ UNCHANGED <<answers, config, llm, locals, announced, errorLogged, earlier,
                   inProgress, everStarted, sinceStart, period, balance>>

\* LiquidityProvider.__init__ completing; main() goes on to provider.loop()
Construct ==
    /\ pc = "construct"
    /\ config.wallet_ok
    /\ \E libraryPresent \in BOOLEAN, modelLoads \in BOOLEAN :
          llm' = load_llama(libraryPresent, modelLoads)
    /\ pc' = "loop_top"
    /\ UNCHANGED <<answers, config, locals, announced, errorLogged, earlier,
                   inProgress, everStarted, sinceStart, period, balance>>

\* ------------------------------------------------------------------- loop

CallRebalanceOverlapping ==
    /\ pc \in {"loop_top", "read_position", "decide"}
    /\ inProgress < MaxOverlap
    /\ pc' = "read_active"
    /\ inProgress' = inProgress + 1
    /\ everStarted' = TRUE
    /\ earlier' = locals
    /\ locals' = EmptyFrame
    /\ answers' = <<>>
    /\ announced' = <<>>
    /\ errorLogged' = FALSE
    /\ sinceStart' = 0
    /\ period' = 0
    /\ UNCHANGED <<config, llm, balance>>

\* while True: try: self.rebalance()  -- a new frame, a new cycle
CallRebalance ==
    /\ pc = "loop_top"
    /\ pc' = "read_active"
    /\ inProgress' = inProgress + 1
    /\ everStarted' = TRUE
    /\ earlier' = locals
    /\ locals' = EmptyFrame
    /\ answers' = <<>>
    /\ announced' = <<>>
    /\ errorLogged' = FALSE
    /\ sinceStart' = 0
    /\ period' = 0
    /\ UNCHANGED <<config, llm, balance>>

\* active = self.current_active_bin()
ReadActive ==
    /\ pc = "read_active"
    /\ \E answer \in Bins, d \in StageSeconds :
          /\ locals' = [n \in {"active"} |-> current_active_bin(answer)]
          /\ answers' = Append(answers, answer)
          /\ sinceStart' = sinceStart + d
    /\ pc' = "read_position"
    /\ UNCHANGED <<config, llm, announced, errorLogged, earlier, inProgress,
                   everStarted, period, balance>>

\* the call of current_active_bin() raising
ReadActiveRaises ==
    /\ pc = "read_active"
    /\ \E d \in StageSeconds : sinceStart' = sinceStart + d
    /\ pc' = "raised"
    /\ UNCHANGED <<answers, config, llm, locals, announced, errorLogged, earlier,
                   inProgress, everStarted, period, balance>>

\* current = self.my_position_bin()
ReadPosition ==
    /\ pc = "read_position"
    /\ \E answer \in Bins, d \in StageSeconds :
          /\ locals' = [n \in {"active", "current"} |->
                           IF n = "active" THEN locals["active"]
                           ELSE my_position_bin(answer)]
          /\ answers' = Append(answers, answer)
          /\ sinceStart' = sinceStart + d
    /\ pc' = "decide"
    /\ UNCHANGED <<config, llm, announced, errorLogged, earlier, inProgress,
                   everStarted, period, balance>>

\* the call of my_position_bin() raising
ReadPositionRaises ==
    /\ pc = "read_position"
    /\ \E d \in StageSeconds : sinceStart' = sinceStart + d
    /\ pc' = "raised"
    /\ UNCHANGED <<answers, config, llm, locals, announced, errorLogged, earlier,
                   inProgress, everStarted, period, balance>>

DecideAdvised ==
    /\ pc = "decide"
    /\ IF llm = "model" \/ within_reward_range(locals["current"], locals["active"])
       THEN pc' = "returning"
       ELSE pc' = "announce"
    /\ UNCHANGED <<answers, config, llm, locals, announced, errorLogged, earlier,
                   inProgress, everStarted, sinceStart, period, balance>>

\* if self.within_reward_range(current, active): return
Decide ==
    /\ pc = "decide"
    /\ IF within_reward_range(locals["current"], locals["active"])
       THEN pc' = "returning"
       ELSE pc' = "announce"
    /\ UNCHANGED <<answers, config, llm, locals, announced, errorLogged, earlier,
                   inProgress, everStarted, sinceStart, period, balance>>

\* print("Rebalancing from bin", current, "to around", active); the TODO that
\* follows does nothing, neither gas_reserve nor the balance is looked at
Announce ==
    /\ pc = "announce"
    /\ announced' = Append(announced,
                           rebalancing_line(locals["current"], locals["active"]))
    /\ \E d \in StageSeconds : sinceStart' = sinceStart + d
    /\ pc' = "returning"
    /\ UNCHANGED <<answers, config, llm, locals, errorLogged, earlier, inProgress,
                   everStarted, period, balance>>

\* rebalance() returns to the try block of loop()
Return ==
    /\ pc = "returning"
    /\ inProgress' = inProgress - 1
    /\ pc' = "sleep"
    /\ UNCHANGED <<answers, config, llm, locals, announced, errorLogged, earlier,
                   everStarted, sinceStart, period, balance>>

CatchErrorReraises ==
    /\ pc = "raised"
    /\ inProgress' = inProgress - 1
    /\ errorLogged' = TRUE
    /\ pc' = "crashed"
    /\ UNCHANGED <<answers, config, llm, locals, announced, earlier, everStarted,
                   sinceStart, period, balance>>

\* except Exception as exc: print("Error during rebalance:", exc)
CatchError ==
    /\ pc = "raised"
    /\ inProgress' = inProgress - 1
    /\ errorLogged' = TRUE
    /\ pc' = "sleep"
    /\ UNCHANGED <<answers, config, llm, locals, announced, earlier, everStarted,
                   sinceStart, period, balance>>

SleepOnlyAfterSuccess ==
    /\ pc = "sleep"
    /\ ~errorLogged
    /\ period' = sinceStart + SleepSeconds
    /\ pc' = "loop_top"
    /\ UNCHANGED <<answers, config, llm, locals, announced, errorLogged, earlier,
                   inProgress, everStarted, sinceStart, balance>>

\* time.sleep(180), then back to the top of while True
Sleep ==
    /\ pc = "sleep"
    /\ period' = sinceStart + SleepSeconds
    /\ pc' = "loop_top"
    /\ UNCHANGED <<answers, config, llm, locals, announced, errorLogged, earlier,
                   inProgress, everStarted, sinceStart, balance>>

Startup == LoadConfig \/ ConstructFails \/ Construct

Cycle ==
    \/ CallRebalance
    \/ ReadActive
    \/ ReadActiveRaises
    \/ ReadPosition
    \/ ReadPositionRaises
    \/ Decide
    \/ Announce
    \/ Return
    \/ CatchError
    \/ Sleep

Next == Startup \/ Cycle

Spec == Init /\ [][Next]_vars

\* one thread runs main(); every call in it returns or raises, and
\* time.sleep(180) returns
FairSpec == Init /\ [][Next]_vars /\ WF_vars(Next)

\* ------------------------------------------------------------- properties

InCycle == pc \in {"read_active", "read_position", "decide", "announce",
                   "returning", "raised"}

\* C1: a call of rebalance() that returns has announced no rebalance exactly
\* when the position bin is at most 2 bins from the active bin, and has
\* announced one in every other case.
C1_NoActionIffWithinRange ==
    /\ pc = "announce" => Abs(locals["current"] - locals["active"]) > 2
    /\ pc = "returning" =>
          (announced = <<>> <=> Abs(locals["current"] - locals["active"]) <= 2)

C1_Witness ==
    /\ pc = "returning"
    /\ announced = <<>>
    /\ Abs(locals["current"] - locals["active"]) = 2

\* C2: an error raised in a cycle is caught in loop() and a later call of
\* rebalance() always follows it.
C2_ErrorFollowedByNextCycle == (pc = "raised") ~> (pc = "read_active")

C2_Witness == pc = "loop_top" /\ errorLogged

C5_IntervalIsFloor ==
    (pc = "loop_top" /\ everStarted) => period = Max(sinceStart, SleepSeconds)

\* C6: at most one call of rebalance() is in progress, and none is while
\* loop() sleeps or is about to call the next one.
C6_CyclesSequential ==
    /\ inProgress \in {0, 1}
    /\ InCycle => inProgress = 1
    /\ pc \in {"sleep", "loop_top"} => inProgress = 0

C6_Witness ==
    /\ pc = "sleep"
    /\ sinceStart > SleepSeconds
    /\ Bound(earlier, "active")
    /\ inProgress = 0

\* C7: the rebalance that is announced targets the active bin the chain
\* answered in this same cycle.
C7_TargetIsActiveOfThisCycle ==
    announced # <<>> =>
        /\ Len(announced) = 1
        /\ announced[1].to = answers[1]
        /\ announced[1].from = answers[2]

C7_Witness ==
    /\ announced # <<>>
    /\ Bound(earlier, "active")
    /\ earlier["active"] # answers[1]
    /\ announced[1].to = answers[1]

\* C8: the process terminates only when construction fails, and then no
\* cycle has ever started; once a cycle has started it never terminates.
C8_OnlyStartupIsFatal ==
    /\ pc = "crashed" => (~everStarted /\ ~config.wallet_ok)
    /\ everStarted => pc # "crashed"

C8_Witness == pc = "crashed" /\ ~everStarted

C10_DecisionFromThisCycleReads ==
    /\ pc \in {"decide", "announce", "returning"} =>
          /\ Len(answers) = 2
          /\ locals["active"] = answers[1]
          /\ locals["current"] = answers[2]
    /\ pc = "returning" =>
          (announced = <<>> <=> Abs(answers[2] - answers[1]) <= RewardRange)

C10_Witness ==
    /\ pc = "returning"
    /\ announced # <<>>
    /\ Bound(earlier, "current")
    /\ within_reward_range(earlier["current"], earlier["active"])
    /\ earlier["current"] # answers[2]

====
